---- MODULE Spec2Model ----
(***************************************************************************)
(* GLTFWriter.write(doc, options): the serialization of a property graph   *)
(* into a native document {json, resources}.  The writer's passes over the *)
(* root lists (textures, buffers, materials, meshes) are the actions; the  *)
(* input document and the options are drawn in Init.  Byte blobs are       *)
(* modelled by their byte length.  JSON arrays are sequences; an index     *)
(* stored in the JSON keeps its 0-based JavaScript value.  A JSON object   *)
(* is a record whose DOMAIN is the set of fields that are present.         *)
(* Spec is write() itself; CleanSpec applies clean() to objects of every   *)
(* kind of value; MaterialSpec runs the texture setters of a Material on   *)
(* the document of the texture linking test.                               *)
(***************************************************************************)
EXTENDS Integers, Sequences, FiniteSets, TLC

(* ------------------------------ bounds --------------------------------- *)
MaxBuffers == 2
MaxAccessors == 2
MaxTextures == 2
MaxLinks == 2
MaxMaterials == 2

(* ----------------------------- constants ------------------------------- *)
ARRAY_BUFFER == 34962
ELEMENT_ARRAY_BUFFER == 34963
GLB_BUFFER == "@glb.bin"
Null == 0

(* A record without fields: the JavaScript object {}. *)
EmptyObject == <<>>

(* obj[key] = value on a JSON object. *)
SetField(obj, key, value) == (key :> value) @@ obj

(* Map.has(key). *)
MapHasNever(map, key) == FALSE

MapHas(map, key) == key \in DOMAIN map

(* Map.set(key, value). *)
MapSet(map, key, value) == (key :> value) @@ map

(* ---------------------------- BufferUtils ------------------------------ *)
padNumber(v) == ((v + 3) \div 4) * 4

(* BufferUtils.pad(arrayBuffer): byte length of the padded copy. *)
pad(byteLength) == padNumber(byteLength)

RECURSIVE concat(_)
concat(buffers) ==
    IF buffers = <<>> THEN 0 ELSE Head(buffers) + concat(Tail(buffers))

(* BufferUtils.encodeBufferToBase64 of n zero bytes: one group "AAAA" for  *)
(* every 3 bytes, and a last group closed with '=' for 1 or 2 bytes left.  *)
RECURSIVE Repeat(_, _)
Repeat(s, n) == IF n = 0 THEN "" ELSE s \o Repeat(s, n - 1)

encodeBufferToBase64(n) ==
    Repeat("AAAA", n \div 3)
    \o (CASE n % 3 = 0 -> "" [] n % 3 = 1 -> "AA==" [] n % 3 = 2 -> "AAA=")

DataURIPrefix == "data:application/octet-stream;base64,"

DataURI(n) == DataURIPrefix \o encodeBufferToBase64(n)

IsDataURI(uri) == \E n \in 0..Len(uri) : uri = DataURI(n)

(* Byte length of the payload a data URI decodes to. *)
decodedByteLength(uri) == CHOOSE n \in 0..Len(uri) : uri = DataURI(n)

(* ------------------------- UniqueURIGenerator -------------------------- *)
UniqueURIGenerator(multiple, basename) ==
    [counter |-> 1, multiple |-> multiple, basename |-> basename]

createURIMissingIncrement(gen, object, extension) ==
    IF object.uri # "" THEN [uri |-> object.uri, gen |-> gen]
    ELSE IF ~gen.multiple
         THEN [uri |-> gen.basename \o "." \o extension, gen |-> gen]
         ELSE [uri |-> gen.basename \o "_" \o ToString(gen.counter)
                        \o "." \o extension,
               gen |-> gen]

(* createURI returns the URI and the generator with its advanced counter. *)
createURI(gen, object, extension) ==
    IF object.uri # "" THEN [uri |-> object.uri, gen |-> gen]
    ELSE IF ~gen.multiple
         THEN [uri |-> gen.basename \o "." \o extension, gen |-> gen]
         ELSE [uri |-> gen.basename \o "_" \o ToString(gen.counter)
                        \o "." \o extension,
               gen |-> [gen EXCEPT !.counter = @ + 1]]

(* ---------------------------- property defs ---------------------------- *)
(* Property.getName(), getExtras() and getExtensions(): the getters hand   *)
(* out the string and the objects the property holds.                      *)
getName(property) == property.name
getExtras(property) == property.extras
getExtensions(property) == property.extensions

(* Object.keys(object).length > 0 *)
HasKeys(object) == DOMAIN object # {}

createPropertyDef(property) ==
    LET def0 == IF getName(property) # ""
                THEN [name |-> getName(property)] ELSE EmptyObject
        def1 == IF HasKeys(getExtras(property))
                THEN SetField(def0, "extras", getExtras(property)) ELSE def0
    IN IF HasKeys(getExtensions(property))
       THEN SetField(def1, "extras", getExtensions(property)) ELSE def1

(* The property def.extras was taken from: the object createPropertyDef    *)
(* stored in def.extras is the property's own object, not a copy.          *)
extrasSource(property) ==
    IF HasKeys(getExtensions(property)) THEN "extensions"
    ELSE IF HasKeys(getExtras(property)) THEN "extras" ELSE ""

(* Accessor.getElementSize() and Accessor.getComponentSize(). *)
getElementSize(accessor) ==
    CASE accessor.type = "SCALAR" -> 1
      [] accessor.type = "VEC2" -> 2
      [] accessor.type = "VEC3" -> 3
      [] accessor.type = "VEC4" -> 4

getComponentSize(accessor) ==
    CASE accessor.componentType = 5120 -> 1
      [] accessor.componentType = 5121 -> 1
      [] accessor.componentType = 5122 -> 2
      [] accessor.componentType = 5123 -> 2
      [] accessor.componentType = 5125 -> 4
      [] accessor.componentType = 5126 -> 4

(* accessor.getArray().buffer.byteLength *)
ArrayByteLength(accessor) ==
    accessor.count * getElementSize(accessor) * getComponentSize(accessor)

createAccessorDef(accessor) ==
    [type |-> accessor.type, componentType |-> accessor.componentType,
     count |-> accessor.count] @@ createPropertyDef(accessor)

(* ------------------------------ inputs --------------------------------- *)
(* A property as created: a name, no extras, no extensions. *)
Property(name) ==
    [name |-> name, extras |-> EmptyObject, extensions |-> EmptyObject]

BufferNames == <<"buffer1", "buffer2", "buffer3", "buffer4">>
TextureNames == <<"tex1", "tex2", "tex3", "tex4">>
ImageBytes == <<3, 4, 5, 2>>

Modes == {[basename |-> "scene", isGLB |-> g, embedded |-> e] :
            g \in BOOLEAN, e \in BOOLEAN}

SeqsUpTo(S, n) == UNION {[1..k -> S] : k \in 0..n}

U16Scalar(b, c) == [buffer |-> b, type |-> "SCALAR",
                    componentType |-> 5123, count |-> c] @@ Property("")
F32Vec3(b, c) == [buffer |-> b, type |-> "VEC3",
                  componentType |-> 5126, count |-> c] @@ Property("")
U8Vec3(b, c) == [buffer |-> b, type |-> "VEC3",
                 componentType |-> 5121, count |-> c] @@ Property("")

NoSlots == [s \in 1..5 |-> [texture |-> Null]]


(* n primitives with the material, in mode TRIANGLES, without targets. *)
Primitives(n, material) ==
    [p \in 1..n |-> [material |-> material, mode |-> 4, targets |-> <<>>]]

(* A mesh without weights. *)
Mesh(name, primitives) ==
    [primitives |-> primitives, weights |-> <<>>] @@ Property(name)

(* Documents that exercise the packing of buffers: every accessor has one  *)
(* use ("empty": an accessor of count 0 used by an animation sampler),     *)
(* texture t carries an image of ImageBytes[t] bytes.                      *)
Uses == {"index", "attribute", "other", "empty"}

UseAccessor(u) ==
    CASE u.use = "index" -> U16Scalar(u.buffer, 1)
      [] u.use = "attribute" -> U8Vec3(u.buffer, 1)
      [] u.use = "other" -> F32Vec3(u.buffer, 1)
      [] u.use = "empty" -> F32Vec3(u.buffer, 0)

UseLink(us, a) ==
    CASE us[a].use = "index" ->
            [kind |-> "IndexLink", parent |-> 1, child |-> a]
      [] us[a].use = "attribute" ->
            [kind |-> "AttributeLink", parent |-> 1, child |-> a]
      [] OTHER -> [kind |-> "Link", parent |-> Null, child |-> a]

UseLinks(us) ==
    [a \in 1..Len(us) |-> UseLink(us, a)]

PackDocs ==
    {[buffers |-> [b \in 1..nb |->
                    [uri |-> ""] @@ Property(BufferNames[b])],
      accessors |-> [a \in 1..Len(us) |-> UseAccessor(us[a])],
      links |-> UseLinks(us),
      textures |-> [t \in 1..nt |->
                      [uri |-> "", mimeType |-> "image/png",
                       image |-> ImageBytes[t]]
                      @@ Property(TextureNames[t])],
      materials |-> <<>>,
      primitives |-> Primitives(1, Null),
      meshes |-> <<Mesh("", <<1>>)>>] :
        <<nb, us, nt>> \in UNION {
            {nb0} \X SeqsUpTo([buffer : 1..nb0, use : Uses], MaxAccessors)
                  \X (0..MaxTextures) :
            nb0 \in 0..MaxBuffers}}

(* Documents that exercise the classification of accessors by their links. *)
LinkSet(na) ==
    {[kind |-> "AttributeLink", parent |-> p, child |-> a] :
        p \in 1..2, a \in 1..na}
    \cup {[kind |-> "IndexLink", parent |-> 1, child |-> a] : a \in 1..na}
    \cup {[kind |-> "Link", parent |-> Null, child |-> a] : a \in 1..na}

(* Primitive.setIndices replaces the link: one IndexLink per primitive. *)
OneIndexPerPrimitive(ls) ==
    \A i, j \in 1..Len(ls) :
        (/\ ls[i].kind = "IndexLink" /\ ls[j].kind = "IndexLink"
         /\ ls[i].parent = ls[j].parent) => i = j

LinkDocs ==
    {[buffers |-> [b \in 1..2 |->
                    [uri |-> ""] @@ Property(BufferNames[b])],
      accessors |-> [a \in 1..Len(bs) |-> F32Vec3(bs[a], 1)],
      links |-> ls,
      textures |-> <<>>,
      materials |-> <<>>,
      primitives |-> Primitives(2, Null),
      meshes |-> <<Mesh("", <<1, 2>>)>>] :
        <<bs, ls>> \in UNION {
            {bs0} \X {l \in SeqsUpTo(LinkSet(Len(bs0)), MaxLinks) :
                        OneIndexPerPrimitive(l)} :
            bs0 \in SeqsUpTo(1..2, MaxAccessors) \ {<<>>}}}

(* Documents that exercise the URI generators: buffers and textures with   *)
(* and without a pre-set URI, buffers with one accessor or none.           *)
BufferURIs == {"", "scene_1.bin"}
TextureURIs == {"", "scene_1.png"}
MimeTypes == {"image/png", "image/jpeg"}

HasAccessor(bs) ==
    LET B(b) == bs[b].has IN SelectSeq([b \in 1..Len(bs) |-> b], B)

URIDocs ==
    {[buffers |-> [b \in 1..Len(bs) |->
                      [uri |-> bs[b].uri] @@ Property(BufferNames[b])],
      accessors |-> [a \in 1..Len(HasAccessor(bs)) |->
                      F32Vec3(HasAccessor(bs)[a], 1)],
      links |-> <<>>,
      textures |-> [t \in 1..Len(ts) |->
                      [uri |-> ts[t].uri, mimeType |-> ts[t].mimeType,
                       image |-> 4] @@ Property(TextureNames[t])],
      materials |-> <<>>,
      primitives |-> <<>>,
      meshes |-> <<>>] :
        <<bs, ts>> \in
            SeqsUpTo([uri : BufferURIs, has : BOOLEAN], MaxBuffers)
            \X SeqsUpTo([uri : TextureURIs, mimeType : MimeTypes],
                        MaxTextures)}

(* Documents that exercise the sharing of samplers and textures: every     *)
(* material has one texture slot in use (baseColor or normal).             *)
Samplers ==
    {[magFilter |-> 0, minFilter |-> 0, wrapS |-> 10497, wrapT |-> 10497],
     [magFilter |-> 9728, minFilter |-> 0, wrapS |-> 10497, wrapT |-> 10497],
     [magFilter |-> 0, minFilter |-> 0, wrapS |-> 33071, wrapT |-> 10497]}

SlotSet(nt) ==
    {[texture |-> t, texCoord |-> 0, sampler |-> s] :
        t \in 1..nt, s \in Samplers}

MaterialSet(nt) ==
    {[slots |-> NoSlots] @@ Property("")}
    \cup {[slots |-> [NoSlots EXCEPT ![k] = slot]] @@ Property("") :
            k \in {1, 3}, slot \in SlotSet(nt)}

TexDocs ==
    {[buffers |-> <<>>,
      accessors |-> <<>>,
      links |-> <<>>,
      textures |-> [t \in 1..nt |->
                      [uri |-> "", mimeType |-> "image/png", image |-> 4]
                      @@ Property(TextureNames[t])],
      materials |-> ms,
      primitives |-> Primitives(1, 1),
      meshes |-> <<Mesh("", <<1>>)>>] :
        <<nt, ms>> \in UNION {
            {nt0} \X (SeqsUpTo(MaterialSet(nt0), MaxMaterials) \ {<<>>}) :
            nt0 \in 1..MaxTextures}}

(* Documents that exercise the interleaving of attributes: one buffer and  *)
(* one mesh with two primitives; every accessor is VEC3 of bytes or floats *)
(* with 2 or 3 elements and is an attribute of the first primitive, of the *)
(* second or of both.  The links are in the order the primitives were      *)
(* given their attributes: those of the first primitive, then those of the *)
(* second.                                                                 *)
VertexAccessors ==
    {[accessor |-> accessor, users |-> users] :
        accessor \in {U8Vec3(1, 2), U8Vec3(1, 3), F32Vec3(1, 2), F32Vec3(1, 3)},
        users \in {{1}, {2}, {1, 2}}}

AttributeLinks(vs) ==
    LET na == Len(vs)
        all == [k \in 1..(2 * na) |->
                  [kind |-> "AttributeLink", parent |-> ((k - 1) \div na) + 1,
                   child |-> ((k - 1) % na) + 1]]
        Linked(link) == link.parent \in vs[link.child].users
    IN SelectSeq(all, Linked)

AttributeDocs ==
    {[buffers |-> <<[uri |-> ""] @@ Property(BufferNames[1])>>,
      accessors |-> [a \in 1..Len(vs) |-> vs[a].accessor],
      links |-> AttributeLinks(vs),
      textures |-> <<>>,
      materials |-> <<>>,
      primitives |-> Primitives(2, Null),
      meshes |-> <<Mesh("", <<1, 2>>)>>] :
        vs \in SeqsUpTo(VertexAccessors, MaxAccessors) \ {<<>>}}

(* A document whose root lists are empty. *)
EmptyDoc == [buffers |-> <<>>, accessors |-> <<>>, links |-> <<>>,
             textures |-> <<>>, materials |-> <<>>, primitives |-> <<>>,
             meshes |-> <<>>]

(* Documents that exercise the mesh emitter: one mesh with or without a    *)
(* name, extras and extensions, whose two primitives have a morph target   *)
(* (a named target without attributes) or none.                            *)
ExtrasSet == {EmptyObject, [author |-> "me"]}
ExtensionsSet == {EmptyObject, [EXT_mesh |-> [enabled |-> TRUE]]}
TargetLists(name) == {<<>>, <<[name |-> name]>>}

MeshDocs ==
    {[EmptyDoc EXCEPT
        !.primitives = <<[material |-> Null, mode |-> 4, targets |-> t1],
                         [material |-> Null, mode |-> 4, targets |-> t2]>>,
        !.meshes = <<[primitives |-> <<1, 2>>, weights |-> <<>>,
                      name |-> name, extras |-> extras,
                      extensions |-> extensions]>>] :
        <<name, extras, extensions, t1, t2>> \in
            {"", "mesh"} \X ExtrasSet \X ExtensionsSet
            \X TargetLists("smile") \X TargetLists("frown")}

ExternalMode == [basename |-> "scene", isGLB |-> FALSE, embedded |-> FALSE]

Inputs ==
    (PackDocs \X Modes)
    \cup (LinkDocs \X {ExternalMode})
    \cup (URIDocs \X {ExternalMode})
    \cup (TexDocs \X {ExternalMode})
    \cup (MeshDocs \X {ExternalMode})
    \cup (AttributeDocs \X {ExternalMode})

(* ------------------------------- state --------------------------------- *)
VARIABLES
    doc,                 \* the input property graph
    options,             \* WriterOptions
    pc,                  \* the pass write() is in
    pos,                 \* number of items of that pass already written
    json,                \* nativeDoc.json
    resources,           \* nativeDoc.resources: URI -> byte length
    imageData,           \* byte lengths of the recorded images
    bufferURIGenerator,
    imageURIGenerator,
    accessorIndexMap,
    imageIndexMap,
    materialIndexMap,
    meshIndexMap,
    textureIndexMap,
    samplerIndexMap,
    groups,              \* accessor groups of the buffer written last
    warnings,            \* names of the buffers the logger warned about
    error,               \* message of the Error thrown, "" if none
    returned             \* TRUE once write() has returned nativeDoc

vars == <<doc, options, pc, pos, json, resources, imageData,
          bufferURIGenerator, imageURIGenerator, accessorIndexMap,
          imageIndexMap, materialIndexMap, meshIndexMap, textureIndexMap,
          samplerIndexMap, groups, warnings, error, returned>>

Passes == <<"textures", "buffers", "materials", "meshes", "return">>

PassList(d, pass) ==
    CASE pass = "textures" -> d.textures
      [] pass = "buffers" -> d.buffers
      [] pass = "materials" -> d.materials
      [] pass = "meshes" -> d.meshes
      [] OTHER -> <<>>

(* The first pass at or after position k of Passes that has work to do. *)
RECURSIVE PassFrom(_, _)
PassFrom(d, k) ==
    IF Passes[k] = "return" \/ PassList(d, Passes[k]) # <<>>
    THEN Passes[k] ELSE PassFrom(d, k + 1)

PassIndex(pass) == CHOOSE k \in 1..Len(Passes) : Passes[k] = pass

(* Advance after writing item pos + 1 of the current pass. *)
Advance ==
    IF pos + 1 < Len(PassList(doc, pc))
    THEN /\ pc' = pc
         /\ pos' = pos + 1
    ELSE /\ pc' = PassFrom(doc, PassIndex(pc) + 1)
         /\ pos' = 0

NoGroups == [attributeAccessors |-> <<>>, indexAccessors |-> <<>>,
             otherAccessors |-> <<>>, error |-> ""]

(* The state after the set-up of write(): the lookup tables are empty and  *)
(* the arrays of json, which write() assigns before or while it fills      *)
(* them, are empty.                                                        *)
Init ==
    /\ \E input \in Inputs : doc = input[1] /\ options = input[2]
    /\ pc = PassFrom(doc, 1)
    /\ pos = 0
    /\ json = [asset |-> [version |-> "2.0"],
               accessors |-> <<>>, bufferViews |-> <<>>, samplers |-> <<>>,
               textures |-> <<>>, images |-> <<>>, buffers |-> <<>>,
               materials |-> <<>>, meshes |-> <<>>]
    /\ resources = <<>>
    /\ imageData = <<>>
    /\ bufferURIGenerator =
            UniqueURIGenerator(Len(doc.buffers) > 1, options.basename)
    /\ imageURIGenerator =
            UniqueURIGenerator(Len(doc.textures) > 1, options.basename)
    /\ accessorIndexMap = <<>>
    /\ imageIndexMap = <<>>
    /\ materialIndexMap = <<>>
    /\ meshIndexMap = <<>>
    /\ textureIndexMap = <<>>
    /\ samplerIndexMap = <<>>
    /\ groups = NoGroups
    /\ warnings = <<>>
    /\ error = ""
    /\ returned = FALSE

(* ------------------------------ textures ------------------------------- *)
(* One iteration of root.listTextures().map(...). *)
WriteImage ==
    /\ pc = "textures"
    /\ LET texture == doc.textures[pos + 1]
           textureIndex == pos
           def0 == createPropertyDef(texture)
           imageDef == IF texture.mimeType # ""
                       THEN SetField(def0, "mimeType", texture.mimeType)
                       ELSE def0
       IN /\ IF options.isGLB \/ options.embedded
             THEN /\ imageData' = Append(imageData, texture.image)
                  /\ json' = [json EXCEPT
                        !.images = Append(@,
                            SetField(imageDef, "bufferView",
                                     Len(json.bufferViews))),
                        !.bufferViews = Append(@,
                            [buffer |-> 0, byteOffset |-> -1,
                             byteLength |-> texture.image])]
                  /\ UNCHANGED <<imageURIGenerator, resources>>
             ELSE LET extension == IF texture.mimeType = "image/png"
                                   THEN "png" ELSE "jpeg"
                      r == createURI(imageURIGenerator, texture, extension)
                  IN /\ imageURIGenerator' = r.gen
                     /\ json' = [json EXCEPT
                            !.images = Append(@,
                                SetField(imageDef, "uri", r.uri))]
                     /\ resources' = MapSet(resources, r.uri, texture.image)
                     /\ UNCHANGED imageData
          /\ imageIndexMap' = MapSet(imageIndexMap, pos + 1, textureIndex)
    /\ Advance
    /\ UNCHANGED <<doc, options, bufferURIGenerator, accessorIndexMap,
                   materialIndexMap, meshIndexMap, textureIndexMap,
                   samplerIndexMap, groups, warnings, error, returned>>

(* --------------------------- data use ---------------------------------- *)
(* accessorLinks.get(accessor) || []: the links of the graph, in graph     *)
(* order, whose child is the accessor (links from the Root are not part of *)
(* doc.links).                                                             *)
accessorLinks(accessor) ==
    LET OfAccessor(link) == link.child = accessor
    IN SelectSeq(doc.links, OfAccessor)

(* buffer.listParents() without the Root: the accessors of the buffer. *)
bufferParents(buffer) ==
    LET InBuffer(a) == doc.accessors[a].buffer = buffer
    IN SelectSeq([a \in 1..Len(doc.accessors) |-> a], InBuffer)

isAttribute(accessorRefs) ==
    \E k \in 1..Len(accessorRefs) : accessorRefs[k].kind = "AttributeLink"

isIndex(accessorRefs) ==
    \E k \in 1..Len(accessorRefs) : accessorRefs[k].kind = "IndexLink"

isOtherNever(accessorRefs) == FALSE

isOther(accessorRefs) ==
    \E k \in 1..Len(accessorRefs) :
        accessorRefs[k].kind \notin {"AttributeLink", "IndexLink"}

(* attributeAccessors.get(primitive) || new Set(), .add(parent), .set(..): *)
(* the Map keeps the insertion order of its keys.                          *)
AddAttribute(attributeAccessors, primitive, accessor) ==
    IF \E k \in 1..Len(attributeAccessors) :
            attributeAccessors[k].primitive = primitive
    THEN [k \in 1..Len(attributeAccessors) |->
            IF attributeAccessors[k].primitive = primitive
            THEN [attributeAccessors[k] EXCEPT
                    !.accessors = Append(@, accessor)]
            ELSE attributeAccessors[k]]
    ELSE Append(attributeAccessors,
                [primitive |-> primitive, accessors |-> <<accessor>>])

MixedUseError == "Attribute or index accessors must be used only for that purpose."

(* The loop "Categorize accessors by use" over the parents of a buffer. *)
RECURSIVE categorize(_, _)
categorize(parents, g) ==
    IF parents = <<>> \/ g.error # "" THEN g
    ELSE LET parent == Head(parents)
             accessorRefs == accessorLinks(parent)
             attr == isAttribute(accessorRefs)
             index == isIndex(accessorRefs)
             \* If the Accessor isn't used at all, treat it as "other".
             other == isOther(accessorRefs)
                      \/ (~attr /\ ~index /\ ~isOther(accessorRefs))
         IN categorize(Tail(parents),
              IF attr /\ ~index /\ ~other
              THEN [g EXCEPT !.attributeAccessors =
                        AddAttribute(@, accessorRefs[1].parent, parent)]
              ELSE IF index /\ ~attr /\ ~other
              THEN [g EXCEPT !.indexAccessors = Append(@, parent)]
              ELSE IF other /\ ~attr /\ ~index
              THEN [g EXCEPT !.otherAccessors = Append(@, parent)]
              ELSE [g EXCEPT !.error = MixedUseError])

(* --------------------------- buffer views ------------------------------ *)
(* The writer state the packers append to. *)
Packer == [accessors |-> json.accessors, bufferViews |-> json.bufferViews,
           accessorIndexMap |-> accessorIndexMap]

RECURSIVE concatAccessorDefs(_, _, _, _)
concatAccessorDefs(w, accessors, byteLength, buffers) ==
    IF accessors = <<>>
    THEN [w |-> w, byteLength |-> byteLength, buffers |-> buffers]
    ELSE LET accessor == doc.accessors[Head(accessors)]
             accessorDef ==
                [bufferView |-> Len(w.bufferViews),
                 byteOffset |-> byteLength] @@ createAccessorDef(accessor)
             data == pad(ArrayByteLength(accessor))
         IN concatAccessorDefs(
                [w EXCEPT !.accessorIndexMap =
                              MapSet(@, Head(accessors), Len(w.accessors)),
                          !.accessors = Append(@, accessorDef)],
                Tail(accessors), byteLength + data, Append(buffers, data))

concatAccessors(w, accessors, bufferIndex, bufferByteOffset, bufferViewTarget) ==
    LET r == concatAccessorDefs(w, accessors, 0, <<>>)
        def0 == [buffer |-> bufferIndex, byteOffset |-> bufferByteOffset,
                 byteLength |-> concat(r.buffers)]
        bufferViewDef == IF bufferViewTarget # 0
                         THEN SetField(def0, "target", bufferViewTarget)
                         ELSE def0
    IN [w |-> [r.w EXCEPT !.bufferViews = Append(@, bufferViewDef)],
        byteLength |-> r.byteLength, buffers |-> r.buffers]

RECURSIVE interleaveAccessorDefs(_, _, _)
interleaveAccessorDefs(w, accessors, byteStride) ==
    IF accessors = <<>> THEN [w |-> w, byteStride |-> byteStride]
    ELSE LET accessor == doc.accessors[Head(accessors)]
             accessorDef ==
                [bufferView |-> Len(w.bufferViews),
                 byteOffset |-> byteStride] @@ createAccessorDef(accessor)
         IN interleaveAccessorDefs(
                [w EXCEPT !.accessorIndexMap =
                              MapSet(@, Head(accessors), Len(w.accessors)),
                          !.accessors = Append(@, accessorDef)],
                Tail(accessors),
                byteStride + padNumber(getElementSize(accessor)
                                       * getComponentSize(accessor)))

interleaveAccessors(w, accessors, bufferIndex, bufferByteOffset) ==
    LET vertexCount == doc.accessors[accessors[1]].count
        r == interleaveAccessorDefs(w, accessors, 0)
        byteLength == vertexCount * r.byteStride
        bufferViewDef == [buffer |-> bufferIndex,
                          byteOffset |-> bufferByteOffset,
                          byteLength |-> byteLength,
                          byteStride |-> r.byteStride,
                          target |-> ARRAY_BUFFER]
    IN [w |-> [r.w EXCEPT !.bufferViews = Append(@, bufferViewDef)],
        byteLength |-> byteLength, buffers |-> <<byteLength>>]

(* A packing result r followed by the packing result s. *)
Then(r, s) == [w |-> s.w, byteLength |-> r.byteLength + s.byteLength,
               buffers |-> r.buffers \o s.buffers]

(* The loop over attributeAccessors.values(). *)
RECURSIVE interleavePrimitives(_, _, _)
interleavePrimitives(r, attributeAccessors, bufferIndex) ==
    IF attributeAccessors = <<>> THEN r
    ELSE interleavePrimitives(
            Then(r, interleaveAccessors(r.w,
                        Head(attributeAccessors).accessors,
                        bufferIndex, r.byteLength)),
            Tail(attributeAccessors), bufferIndex)

(* The loop over imageData: sets the byteOffset of image i's buffer view   *)
(* and appends its bytes.                                                  *)
RECURSIVE appendImages(_, _)
appendImages(r, i) ==
    IF i > Len(imageData) THEN r
    ELSE appendImages(
            [w |-> [r.w EXCEPT
                      !.bufferViews[json.images[i].bufferView + 1].byteOffset
                          = r.byteLength],
             byteLength |-> r.byteLength + imageData[i],
             buffers |-> Append(r.buffers, imageData[i])],
            i + 1)

(* const bufferIndex = json.buffers.length *)
rootBufferIndex == pos

nextBufferIndex == Len(json.buffers)

(* The body of root.listBuffers().forEach up to the empty-buffer test. *)
packBufferOtherFirst(g, bufferIndex) ==
    LET r0 == [w |-> Packer, byteLength |-> 0, buffers |-> <<>>]
        r1 == IF g.otherAccessors # <<>>
              THEN Then(r0, concatAccessors(r0.w, g.otherAccessors,
                                bufferIndex, r0.byteLength, 0))
              ELSE r0
        r2 == IF g.indexAccessors # <<>>
              THEN Then(r1, concatAccessors(r1.w, g.indexAccessors,
                                bufferIndex, r1.byteLength,
                                ELEMENT_ARRAY_BUFFER))
              ELSE r1
        r3 == interleavePrimitives(r2, g.attributeAccessors, bufferIndex)
    IN appendImages(r3, 1)

packBuffer(g, bufferIndex) ==
    LET r0 == [w |-> Packer, byteLength |-> 0, buffers |-> <<>>]
        r1 == IF g.indexAccessors # <<>>
              THEN Then(r0, concatAccessors(r0.w, g.indexAccessors,
                                bufferIndex, r0.byteLength,
                                ELEMENT_ARRAY_BUFFER))
              ELSE r0
        r2 == interleavePrimitives(r1, g.attributeAccessors, bufferIndex)
        r3 == IF g.otherAccessors # <<>>
              THEN Then(r2, concatAccessors(r2.w, g.otherAccessors,
                                bufferIndex, r2.byteLength, 0))
              ELSE r2
    IN appendImages(r3, 1)

(* One iteration of root.listBuffers().forEach(...). *)
WriteBuffer ==
    /\ pc = "buffers"
    /\ LET buffer == doc.buffers[pos + 1]
           bufferDef == createPropertyDef(buffer)
           g == categorize(bufferParents(pos + 1), NoGroups)
           r == packBuffer(g, nextBufferIndex)
           bufferByteLength == r.byteLength
           c == createURI(bufferURIGenerator, buffer, "bin")
           uri == IF options.isGLB THEN GLB_BUFFER ELSE c.uri
           def1 == IF options.isGLB THEN bufferDef
                   ELSE SetField(bufferDef, "uri", uri)
           def2 == SetField(def1, "byteLength", bufferByteLength)
           def3 == IF options.embedded
                   THEN SetField(def2, "uri", DataURI(concat(r.buffers)))
                   ELSE def2
       IN /\ groups' = g
          /\ IF g.error # ""
             THEN /\ error' = g.error
                  /\ pc' = "error"
                  /\ pos' = pos
                  /\ UNCHANGED <<json, accessorIndexMap, warnings,
                                 bufferURIGenerator, resources>>
             ELSE /\ accessorIndexMap' = r.w.accessorIndexMap
                  /\ Advance
                  /\ UNCHANGED error
                  /\ IF bufferByteLength = 0
                     THEN /\ warnings' = Append(warnings, buffer.name)
                          /\ json' = [json EXCEPT
                                !.accessors = r.w.accessors,
                                !.bufferViews = r.w.bufferViews]
                          /\ UNCHANGED <<bufferURIGenerator, resources>>
                     ELSE /\ json' = [json EXCEPT
                                !.accessors = r.w.accessors,
                                !.bufferViews = r.w.bufferViews,
                                !.buffers = Append(@, def3)]
                          /\ bufferURIGenerator' =
                                IF options.isGLB THEN bufferURIGenerator
                                ELSE c.gen
                          /\ resources' =
                                IF options.embedded THEN resources
                                ELSE MapSet(resources, uri,
                                            concat(r.buffers))
                          /\ UNCHANGED warnings
    /\ UNCHANGED <<doc, options, imageData, imageURIGenerator, imageIndexMap,
                   materialIndexMap, meshIndexMap, textureIndexMap,
                   samplerIndexMap, returned>>

(* ------------------------------ materials ------------------------------ *)
(* JSON.stringify(def) for a def whose keys were inserted in the order     *)
(* keys: the (key, value) pairs of the fields that are not undefined.      *)
stringify(def, keys) ==
    LET Present(k) == k \in DOMAIN def
    IN [i \in 1..Len(SelectSeq(keys, Present)) |->
            <<SelectSeq(keys, Present)[i], def[SelectSeq(keys, Present)[i]]>>]

SamplerKeys == <<"magFilter", "minFilter", "wrapS", "wrapT">>
TextureKeys == <<"source", "sampler">>

(* value || undefined, assigned to def[key]. *)
SetTruthy(def, key, value) ==
    IF value # 0 THEN SetField(def, key, value) ELSE def

(* def[key] = map.get(k): the field stays undefined for a missing key. *)
SetFromMap(def, key, map, k) ==
    IF k \in DOMAIN map THEN SetField(def, key, map[k]) ELSE def

(* The tables createTextureInfoDef reads and extends. *)
TextureTables == [samplers |-> json.samplers, textures |-> json.textures,
                  samplerIndexMap |-> samplerIndexMap,
                  textureIndexMap |-> textureIndexMap]

createSamplerDef(textureSampler) ==
    SetTruthy(SetTruthy([wrapS |-> textureSampler.wrapS,
                         wrapT |-> textureSampler.wrapT],
                        "minFilter", textureSampler.minFilter),
              "magFilter", textureSampler.magFilter)

createTextureInfoDef(t, texture, textureInfo, textureSampler) ==
    LET samplerDef == createSamplerDef(textureSampler)
        samplerKey == stringify(samplerDef, SamplerKeys)
        t1 == IF ~MapHas(t.samplerIndexMap, samplerKey)
              THEN [t EXCEPT
                      !.samplerIndexMap =
                          MapSet(@, samplerKey, Len(t.samplers)),
                      !.samplers = Append(@, samplerDef)]
              ELSE t
        textureDef == SetFromMap(
                        SetFromMap(EmptyObject, "source",
                                   imageIndexMap, texture),
                        "sampler", t1.samplerIndexMap, samplerKey)
        textureKey == stringify(textureDef, TextureKeys)
        t2 == IF ~MapHas(t1.textureIndexMap, textureKey)
              THEN [t1 EXCEPT
                      !.textureIndexMap =
                          MapSet(@, textureKey, Len(t1.textures)),
                      !.textures = Append(@, textureDef)]
              ELSE t1
    IN [t |-> t2,
        def |-> [index |-> t2.textureIndexMap[textureKey],
                 texCoord |-> textureInfo.texCoord]]

(* The texture slots of a material in the order write() visits them; the   *)
(* first and the last are fields of materialDef.pbrMetallicRoughness.      *)
SlotFields == <<"baseColorTexture", "emissiveTexture", "normalTexture",
                "occlusionTexture", "metallicRoughnessTexture">>
PbrFields == {"baseColorTexture", "metallicRoughnessTexture"}

RECURSIVE writeSlots(_, _, _)
writeSlots(r, material, k) ==
    IF k > Len(SlotFields) THEN r
    ELSE LET slot == material.slots[k]
         IN IF slot.texture = Null THEN writeSlots(r, material, k + 1)
            ELSE LET c == createTextureInfoDef(r.t, slot.texture, slot,
                                               slot.sampler)
                     field == SlotFields[k]
                 IN writeSlots(
                        [t |-> c.t,
                         def |-> IF field \in PbrFields
                                 THEN [r.def EXCEPT
                                         !.pbrMetallicRoughness =
                                            SetField(@, field, c.def)]
                                 ELSE SetField(r.def, field, c.def)],
                        material, k + 1)

(* One iteration of root.listMaterials().map(...). *)
WriteMaterial ==
    /\ pc = "materials"
    /\ LET material == doc.materials[pos + 1]
           materialDef == SetField(createPropertyDef(material),
                                   "pbrMetallicRoughness", EmptyObject)
           r == writeSlots([t |-> TextureTables, def |-> materialDef],
                           material, 1)
       IN /\ json' = [json EXCEPT !.samplers = r.t.samplers,
                                  !.textures = r.t.textures,
                                  !.materials = Append(@, r.def)]
          /\ samplerIndexMap' = r.t.samplerIndexMap
          /\ textureIndexMap' = r.t.textureIndexMap
          /\ materialIndexMap' = MapSet(materialIndexMap, pos + 1, pos)
    /\ Advance
    /\ UNCHANGED <<doc, options, resources, imageData, bufferURIGenerator,
                   imageURIGenerator, accessorIndexMap, imageIndexMap,
                   meshIndexMap, groups, warnings, error, returned>>

(* -------------------------------- meshes ------------------------------- *)
(* primitive.getIndices(): the child of the primitive's IndexLink. *)
getIndices(primitive) ==
    LET Is(link) == link.kind = "IndexLink" /\ link.parent = primitive
        ls == SelectSeq(doc.links, Is)
    IN IF ls = <<>> THEN Null ELSE ls[1].child

(* The accessors of primitive.listSemantics(), in link order. *)
listAttributes(primitive) ==
    LET Is(link) == link.kind = "AttributeLink" /\ link.parent = primitive
        ls == SelectSeq(doc.links, Is)
    IN [k \in 1..Len(ls) |-> ls[k].child]

(* accessorIndexMap.get(accessor) for every accessor of a list; an         *)
(* accessor without an index leaves undefined, which JSON drops.           *)
AccessorIndices(accessors) ==
    LET Known(a) == a \in DOMAIN accessorIndexMap
        known == SelectSeq(accessors, Known)
    IN [k \in 1..Len(known) |-> accessorIndexMap[known[k]]]

(* primitive.listTargets(): the targets of the model carry a name and no   *)
(* attributes, so every targetDef is {}.                                   *)
listTargets(p) == doc.primitives[p].targets

createPrimitiveDef(p) ==
    LET def0 == SetFromMap([attributes |-> AccessorIndices(listAttributes(p)),
                            mode |-> doc.primitives[p].mode],
                           "material", materialIndexMap,
                           doc.primitives[p].material)
        def1 == IF getIndices(p) # Null
                THEN SetFromMap(def0, "indices", accessorIndexMap,
                                getIndices(p))
                ELSE def0
    IN IF listTargets(p) # <<>>
       THEN SetField(def1, "targets",
                     [k \in 1..Len(listTargets(p)) |-> EmptyObject])
       ELSE def1

(* The primitives of the mesh that have targets; targetNames is set from   *)
(* the first of them and stays undefined without one.                      *)
WithTargets(mesh) ==
    LET Is(p) == Len(listTargets(p)) > 0 IN SelectSeq(mesh.primitives, Is)

targetNames(mesh) ==
    LET targets == listTargets(WithTargets(mesh)[1])
    IN [k \in 1..Len(targets) |-> targets[k].name]

(* meshDef.extras = meshDef.extras || {}; meshDef.extras.targetNames = ..: *)
(* the object in meshDef.extras is the one createPropertyDef took from the *)
(* mesh, so the assignment also changes the mesh.                          *)
setTargetNames(meshDef, mesh) ==
    [def |-> SetField(meshDef, "extras",
                SetField(IF "extras" \in DOMAIN meshDef
                         THEN meshDef.extras ELSE EmptyObject,
                         "targetNames", targetNames(mesh))),
     mesh |-> IF extrasSource(mesh) = "" THEN mesh
              ELSE [mesh EXCEPT ![extrasSource(mesh)] =
                        SetField(@, "targetNames", targetNames(mesh))]]

(* One iteration of root.listMeshes().map(...). *)
WriteMesh ==
    /\ pc = "meshes"
    /\ LET mesh == doc.meshes[pos + 1]
           def0 == SetField(createPropertyDef(mesh), "primitives",
                        [k \in 1..Len(mesh.primitives) |->
                            createPrimitiveDef(mesh.primitives[k])])
           def1 == IF Len(mesh.weights) > 0
                   THEN SetField(def0, "weights", mesh.weights) ELSE def0
           r == IF WithTargets(mesh) # <<>>
                THEN setTargetNames(def1, mesh)
                ELSE [def |-> def1, mesh |-> mesh]
       IN /\ json' = [json EXCEPT !.meshes = Append(@, r.def)]
          /\ doc' = [doc EXCEPT !.meshes[pos + 1] = r.mesh]
          /\ meshIndexMap' = MapSet(meshIndexMap, pos + 1, pos)
    /\ Advance
    /\ UNCHANGED <<options, resources, imageData, bufferURIGenerator,
                   imageURIGenerator, accessorIndexMap, imageIndexMap,
                   materialIndexMap, textureIndexMap, samplerIndexMap,
                   groups, warnings, error, returned>>

(* ------------------------------- return -------------------------------- *)
(* A JavaScript value with the type that typeof and Array.isArray read    *)
(* off it; the payload has a field of its own per type.                    *)
JSArray(array) == [type |-> "array", items |-> array]
JSObject(object) == [type |-> "object", fields |-> object]
JSString(string) == [type |-> "string", chars |-> string]
JSNull == [type |-> "null"]

isEmptyArray(value) == value.type = "array" /\ Len(value.items) = 0

isNullOrEmptyString(value) ==
    value.type = "null" \/ (value.type = "string" /\ value.chars = "")

(* String(value), the property key that delete object[value] addresses. *)
ToPropertyKey(value) == IF value.type = "null" THEN "null" ELSE value.chars

(* clean(object) on an object of typed values: the first loop collects     *)
(* unused (the key of an empty array, but the value of a null or '' entry),*)
(* the second deletes object[key] for every key of unused.                 *)
clean(object) ==
    LET unused ==
            {key \in DOMAIN object : isEmptyArray(object[key])}
            \cup {ToPropertyKey(object[key]) :
                    key \in {k \in DOMAIN object :
                                /\ ~isEmptyArray(object[k])
                                /\ isNullOrEmptyString(object[k])}}
    IN [key \in DOMAIN object \ unused |-> object[key]]

(* nativeDoc.json as typed values: asset is an object, every other key of  *)
(* json holds the array write() assigned to it.                            *)
TypedJSON(object) ==
    [key \in DOMAIN object |->
        IF key = "asset" THEN JSObject(object[key])
        ELSE JSArray(object[key])]

UntypedJSON(object) ==
    [key \in DOMAIN object |->
        IF object[key].type = "object" THEN object[key].fields
        ELSE object[key].items]

(* clean(json); return nativeDoc. *)
Return ==
    /\ pc = "return"
    /\ json' = UntypedJSON(clean(TypedJSON(json)))
    /\ returned' = TRUE
    /\ pc' = "done"
    /\ UNCHANGED <<doc, options, pos, resources, imageData,
                   bufferURIGenerator, imageURIGenerator, accessorIndexMap,
                   imageIndexMap, materialIndexMap, meshIndexMap,
                   textureIndexMap, samplerIndexMap, groups, warnings,
                   error>>

Next == WriteImage \/ WriteBuffer \/ WriteMaterial \/ WriteMesh \/ Return

Spec == Init /\ [][Next]_vars

(* ------------------------- clean(object) alone ------------------------- *)
(* The writer's variables outside a call of write().                       *)
NoWriter ==
    /\ options = ExternalMode
    /\ pos = 0
    /\ resources = <<>>
    /\ imageData = <<>>
    /\ bufferURIGenerator = UniqueURIGenerator(FALSE, options.basename)
    /\ imageURIGenerator = UniqueURIGenerator(FALSE, options.basename)
    /\ accessorIndexMap = <<>>
    /\ imageIndexMap = <<>>
    /\ materialIndexMap = <<>>
    /\ meshIndexMap = <<>>
    /\ textureIndexMap = <<>>
    /\ samplerIndexMap = <<>>
    /\ groups = NoGroups
    /\ warnings = <<>>
    /\ error = ""
    /\ returned = FALSE

(* The objects clean() is applied to: every key is absent or holds an      *)
(* empty array, null, '', a non-empty array or an object with an empty     *)
(* array inside.                                                           *)
CleanKeys == {"a", "b", "null", ""}
CleanValues == {JSArray(<<>>), JSNull, JSString(""), JSArray(<<1>>),
                JSObject([nested |-> <<>>])}

CleanObjects ==
    UNION {[keys -> CleanValues] : keys \in SUBSET CleanKeys}

CleanInit ==
    /\ json \in CleanObjects
    /\ doc = EmptyDoc
    /\ pc = "clean"
    /\ NoWriter

(* clean(object) on the object held in json. *)
CleanObject ==
    /\ pc = "clean"
    /\ json' = clean(json)
    /\ pc' = "cleaned"
    /\ UNCHANGED <<doc, options, pos, resources, imageData,
                   bufferURIGenerator, imageURIGenerator, accessorIndexMap,
                   imageIndexMap, materialIndexMap, meshIndexMap,
                   textureIndexMap, samplerIndexMap, groups, warnings,
                   error, returned>>

CleanNext == CleanObject

CleanSpec == CleanInit /\ [][CleanNext]_vars

(* The array json[key] of the document, empty when clean() removed it. *)
Array(key) == IF key \in DOMAIN json THEN json[key] ELSE <<>>

TypeOK ==
    /\ pc \in {"textures", "buffers", "materials", "meshes", "return",
               "done", "error"}
    /\ returned = (pc = "done")
    /\ (error # "") = (pc = "error")

(* ---------------------- Material texture setters ---------------------- *)
(* The document of the texture linking test: tex1, tex2, tex3 and one      *)
(* material.  doc.links holds the links of the graph in the order of their *)
(* creation, a link being [name, parent, child] with the property types    *)
(* "Root" and "Material" for parents, the position of the texture for a    *)
(* child.                                                                  *)
LinkingTextures == <<"tex1", "tex2", "tex3">>

RootLink(t) == [name |-> "texture", parent |-> "Root", child |-> t]

(* The TextureInfo and TextureSampler a slot gets with its texture. *)
DefaultSampler ==
    [magFilter |-> 0, minFilter |-> 0, wrapS |-> 10497, wrapT |-> 10497]

LinkingDoc ==
    [EmptyDoc EXCEPT
        !.textures = [t \in 1..Len(LinkingTextures) |->
                        [uri |-> "", mimeType |-> "image/png", image |-> 4]
                        @@ Property(LinkingTextures[t])],
        !.materials = <<[slots |-> NoSlots] @@ Property("mat")>>,
        !.links = [t \in 1..Len(LinkingTextures) |-> RootLink(t)]]

MaterialInit ==
    /\ doc = LinkingDoc
    /\ json = EmptyObject
    /\ pc = "material"
    /\ NoWriter

(* graph.unlink of the link the slot holds, if any. *)
disposeKeepsLink(links, slot) == links

dispose(links, slot) ==
    LET Other(link) == link.name # slot IN SelectSeq(links, Other)

(* material.set<Slot>Texture(texture): the link of the slot is disposed    *)
(* of; with a texture the slot gets a new link to it, a TextureInfo and a  *)
(* TextureSampler, with null it is left empty.                             *)
setTexture(k, texture) ==
    /\ pc = "material"
    /\ doc' = [doc EXCEPT
          !.links =
              IF texture = Null THEN dispose(@, SlotFields[k])
              ELSE Append(dispose(@, SlotFields[k]),
                          [name |-> SlotFields[k], parent |-> "Material",
                           child |-> texture]),
          !.materials[1].slots[k] =
              IF texture = Null THEN [texture |-> Null]
              ELSE [texture |-> texture, texCoord |-> 0,
                    sampler |-> DefaultSampler]]
    /\ UNCHANGED <<options, pc, pos, json, resources, imageData,
                   bufferURIGenerator, imageURIGenerator, accessorIndexMap,
                   imageIndexMap, materialIndexMap, meshIndexMap,
                   textureIndexMap, samplerIndexMap, groups, warnings,
                   error, returned>>

TextureOrNull == {Null} \cup (1..Len(LinkingTextures))

setBaseColorTexture == \E texture \in TextureOrNull : setTexture(1, texture)
setEmissiveTexture == \E texture \in TextureOrNull : setTexture(2, texture)
setNormalTexture == \E texture \in TextureOrNull : setTexture(3, texture)
setOcclusionTexture == \E texture \in TextureOrNull : setTexture(4, texture)
setMetallicRoughnessTexture ==
    \E texture \in TextureOrNull : setTexture(5, texture)

MaterialNext ==
    \/ setBaseColorTexture
    \/ setEmissiveTexture
    \/ setNormalTexture
    \/ setOcclusionTexture
    \/ setMetallicRoughnessTexture

MaterialSpec == MaterialInit /\ [][MaterialNext]_vars

(* material.get<Slot>Texture() *)
getTexture(k) == doc.materials[1].slots[k].texture

(* texture.listParents().map(toType): the types of the parents of the      *)
(* texture, each parent once, in the order of their first link.            *)
RECURSIVE ParentTypes(_, _)
ParentTypes(links, seen) ==
    IF links = <<>> THEN <<>>
    ELSE IF Head(links).parent \in seen
         THEN ParentTypes(Tail(links), seen)
         ELSE <<Head(links).parent>>
              \o ParentTypes(Tail(links), seen \cup {Head(links).parent})

listParents(texture) ==
    LET To(link) == link.child = texture
    IN ParentTypes(SelectSeq(doc.links, To), {})

(* ------------------------ reading the output -------------------------- *)
Has(def, field) == field \in DOMAIN def

(* i is a valid (0-based) position of the array. *)
InRange(i, array) == i \in 0..(Len(array) - 1)

At(array, i) == array[i + 1]

Range(seq) == {seq[k] : k \in 1..Len(seq)}

(* The textureInfo defs of a material def. *)
TextureInfoDefs(materialDef) ==
    {materialDef[f] : f \in DOMAIN materialDef \cap (Range(SlotFields) \ PbrFields)}
    \cup {materialDef.pbrMetallicRoughness[f] :
            f \in DOMAIN materialDef.pbrMetallicRoughness \cap PbrFields}

(* Positions (0-based) of the buffer views that images refer to. *)
ImageViews ==
    {Array("images")[t].bufferView :
        t \in {u \in 1..Len(Array("images")) :
                Has(Array("images")[u], "bufferView")}}

(* Positions (0-based) of the buffer views that hold accessor data. *)
AccessorViews == (0..(Len(Array("bufferViews")) - 1)) \ ImageViews

RECURSIVE SumOver(_, _)
SumOver(S, f) ==
    IF S = {} THEN 0
    ELSE LET x == CHOOSE y \in S : TRUE IN f[x] + SumOver(S \ {x}, f)

(* C1: whenever write() returns, every index-valued reference of the       *)
(* output JSON is a valid position of its target array.                    *)
C1_IndicesInBounds ==
    returned =>
        /\ \A k \in 1..Len(Array("accessors")) :
              Has(Array("accessors")[k], "bufferView") =>
                InRange(Array("accessors")[k].bufferView, Array("bufferViews"))
        /\ \A k \in 1..Len(Array("bufferViews")) :
              InRange(Array("bufferViews")[k].buffer, Array("buffers"))
        /\ \A k \in 1..Len(Array("images")) :
              Has(Array("images")[k], "bufferView") =>
                InRange(Array("images")[k].bufferView, Array("bufferViews"))
        /\ \A k \in 1..Len(Array("textures")) :
              /\ Has(Array("textures")[k], "source") =>
                    InRange(Array("textures")[k].source, Array("images"))
              /\ Has(Array("textures")[k], "sampler") =>
                    InRange(Array("textures")[k].sampler, Array("samplers"))
        /\ \A k \in 1..Len(Array("materials")) :
              \A info \in TextureInfoDefs(Array("materials")[k]) :
                InRange(info.index, Array("textures"))
        /\ \A k \in 1..Len(Array("meshes")) :
              \A j \in 1..Len(Array("meshes")[k].primitives) :
                LET primitiveDef == Array("meshes")[k].primitives[j]
                IN /\ \A a \in Range(primitiveDef.attributes) :
                        InRange(a, Array("accessors"))
                   /\ Has(primitiveDef, "indices") =>
                        InRange(primitiveDef.indices, Array("accessors"))
                   /\ Has(primitiveDef, "material") =>
                        InRange(primitiveDef.material, Array("materials"))

(* The size of the blob stored for a buffer def: the decoded payload of    *)
(* its data URI, the resource under its URI, or the resource under the     *)
(* GLB sentinel when it has no uri; -1 if no blob is stored.               *)
BlobSize(bufferDef) ==
    IF Has(bufferDef, "uri")
    THEN IF IsDataURI(bufferDef.uri) THEN decodedByteLength(bufferDef.uri)
         ELSE IF bufferDef.uri \in DOMAIN resources
              THEN resources[bufferDef.uri] ELSE -1
    ELSE IF GLB_BUFFER \in DOMAIN resources
         THEN resources[GLB_BUFFER] ELSE -1

(* C3: after write() returns, the byteLength of every entry of             *)
(* json.buffers equals the byte size of the blob stored for it.            *)
C3_ByteLengthIsBlobSize ==
    returned =>
        \A k \in 1..Len(Array("buffers")) :
            Array("buffers")[k].byteLength = BlobSize(Array("buffers")[k])

(* C4: after write() returns, the byteOffset of every entry of             *)
(* json.bufferViews is a multiple of 4.                                    *)
C4_ViewsAligned ==
    returned =>
        \A k \in 1..Len(Array("bufferViews")) :
            Array("bufferViews")[k].byteOffset % 4 = 0

(* Bytes of accessor data in the buffer at position p of json.buffers. *)
AccessorBytes(p) ==
    SumOver({v \in AccessorViews : At(Array("bufferViews"), v).buffer = p},
            [v \in AccessorViews |-> At(Array("bufferViews"), v).byteLength])

(* Bytes of the images recorded before image t (1-based). *)
ImageBytesBefore(t) ==
    SumOver(1..(t - 1), [u \in 1..Len(imageData) |-> imageData[u]])

(* C6: in GLB or embedded mode the image bytes are appended to, and        *)
(* counted in, buffer 0 only: every later buffer holds accessor data only, *)
(* and the byteOffset of each image view is relative to buffer 0.          *)
C6_ImagesInFirstBufferOnly ==
    (returned /\ (options.isGLB \/ options.embedded)) =>
        /\ \A p \in 1..(Len(Array("buffers")) - 1) :
              At(Array("buffers"), p).byteLength = AccessorBytes(p)
        /\ Array("buffers") # <<>> =>
              \A t \in 1..Len(imageData) :
                 At(Array("bufferViews"),
                    Array("images")[t].bufferView).byteOffset
                    = AccessorBytes(0) + ImageBytesBefore(t)

(* C8: with options.isGLB the value of options.embedded has no effect: no  *)
(* entry of json.buffers has a uri and the bytes of the buffers are stored *)
(* in resources under "@glb.bin".                                          *)
C8_GLBIgnoresEmbedded ==
    (returned /\ options.isGLB) =>
        /\ \A k \in 1..Len(Array("buffers")) :
              ~Has(Array("buffers")[k], "uri")
        /\ Array("buffers") # <<>> => GLB_BUFFER \in DOMAIN resources

(* ---------------------- uses of an accessor ---------------------------- *)
LinkClass(link) ==
    CASE link.kind = "AttributeLink" -> "attribute"
      [] link.kind = "IndexLink" -> "index"
      [] OTHER -> "other"

(* The kinds of the non-Root links that end in accessor a. *)
UseKinds(a) ==
    {LinkClass(doc.links[k]) :
        k \in {j \in 1..Len(doc.links) : doc.links[j].child = a}}

Mixed(a) == Cardinality(UseKinds(a)) > 1

(* The group of an accessor whose links are of one kind, or that has none. *)
ExpectedGroup(a) ==
    IF UseKinds(a) = {} THEN "other" ELSE CHOOSE c \in UseKinds(a) : TRUE

AccessorsOf(b) ==
    {a \in 1..Len(doc.accessors) : doc.accessors[a].buffer = b}

(* The root position of the buffer whose groups the variable groups holds. *)
LastBuffer ==
    CASE pc = "textures" -> 0
      [] pc = "buffers" -> pos
      [] pc = "error" -> pos + 1
      [] OTHER -> Len(doc.buffers)

AttributeSets(a) ==
    {k \in 1..Len(groups.attributeAccessors) :
        a \in Range(groups.attributeAccessors[k].accessors)}

(* The groups accessor a was put in. *)
InGroups(a) ==
    (IF a \in Range(groups.indexAccessors) THEN {"index"} ELSE {})
    \cup (IF a \in Range(groups.otherAccessors) THEN {"other"} ELSE {})
    \cup (IF AttributeSets(a) # {} THEN {"attribute"} ELSE {})

InOneGroup(a) ==
    /\ InGroups(a) = {ExpectedGroup(a)}
    /\ Cardinality(AttributeSets(a)) <= 1

(* C2: an accessor of a buffer whose links are of more than one kind makes *)
(* write() fail with the mixed-use error and no document is returned; an   *)
(* accessor whose links are of one kind (or that has none: "other") does   *)
(* not raise it and lands in exactly one of the three groups.              *)
C2_MixedUseIsFatal ==
    /\ error # "" =>
          /\ error = MixedUseError
          /\ ~returned
          /\ \E a \in AccessorsOf(LastBuffer) :
                /\ Mixed(a)
                /\ InGroups(a) = {}
                /\ \A a2 \in AccessorsOf(LastBuffer) :
                      a2 < a => (~Mixed(a2) /\ InOneGroup(a2))
    /\ (error = "" /\ LastBuffer > 0) =>
          \A a \in AccessorsOf(LastBuffer) : ~Mixed(a) /\ InOneGroup(a)
    /\ returned => \A a \in 1..Len(doc.accessors) : ~Mixed(a)

C2_Witness ==
    /\ error = MixedUseError
    /\ \E a \in AccessorsOf(LastBuffer) : InGroups(a) = {"other"}

(* ------------------------- order of the views -------------------------- *)
AccessorsInView(v) ==
    {a \in DOMAIN accessorIndexMap :
        At(Array("accessors"), accessorIndexMap[a]).bufferView = v}

UseRank(a) ==
    CASE ExpectedGroup(a) = "index" -> 1
      [] ExpectedGroup(a) = "attribute" -> 2
      [] ExpectedGroup(a) = "other" -> 3

(* The root buffer and the kind of the accessors packed in view v. *)
ViewBuffer(v) == doc.accessors[CHOOSE a \in AccessorsInView(v) : TRUE].buffer
ViewRank(v) == UseRank(CHOOSE a \in AccessorsInView(v) : TRUE)

(* Accessor views are in the order of the root buffers, and for one buffer *)
(* the index view, then the interleaved views, then the "other" view.      *)
AccessorViewOrder ==
    /\ \A v \in AccessorViews :
          /\ AccessorsInView(v) # {}
          /\ \A a \in AccessorsInView(v) :
                /\ doc.accessors[a].buffer = ViewBuffer(v)
                /\ UseRank(a) = ViewRank(v)
    /\ \A v, w \in AccessorViews :
          v < w =>
            /\ ViewBuffer(v) <= ViewBuffer(w)
            /\ ViewBuffer(v) = ViewBuffer(w) =>
                  \/ ViewRank(v) < ViewRank(w)
                  \/ ViewRank(v) = 2 /\ ViewRank(w) = 2

(* C5 as stated: json.bufferViews is in packing order, the image views     *)
(* after all accessor views.                                               *)
C5_ImageViewsLast ==
    returned =>
        /\ AccessorViewOrder
        /\ \A i \in ImageViews, v \in AccessorViews : v < i

(* C5 amended: json.bufferViews is in the order the views are created: in  *)
(* GLB or embedded mode one view per texture first, in root order, then    *)
(* for each buffer the index view, the interleaved views and the "other"   *)
(* view; no accessor view precedes an image view.                          *)
C5_ImageViewsFirst ==
    returned =>
        /\ AccessorViewOrder
        /\ \A i \in ImageViews, v \in AccessorViews : i < v
        /\ \A t \in 1..Len(Array("images")) :
              IF options.isGLB \/ options.embedded
              THEN Array("images")[t].bufferView = t - 1
              ELSE ~Has(Array("images")[t], "bufferView")

C5_Witness ==
    /\ returned
    /\ Cardinality(ImageViews) >= 2
    /\ \E v, w \in AccessorViews :
          /\ ViewBuffer(v) = ViewBuffer(w)
          /\ ViewRank(v) < ViewRank(w)

(* --------------------------- skipped buffers --------------------------- *)
Emitted(b) ==
    \E k \in 1..Len(Array("buffers")) :
        Array("buffers")[k].name = doc.buffers[b].name

(* The (0-based) position of root buffer b in json.buffers. *)
PositionOf(b) ==
    CHOOSE p \in 0..(Len(Array("buffers")) - 1) :
        At(Array("buffers"), p).name = doc.buffers[b].name

Skipped(b) ==
    /\ ~Emitted(b)
    /\ doc.buffers[b].name \in Range(warnings)

(* The resources hold the external images and the blobs of the emitted     *)
(* buffers, and nothing else.                                              *)
ResourceKeys ==
    {Array("images")[t].uri :
        t \in {u \in 1..Len(Array("images")) : Has(Array("images")[u], "uri")}}
    \cup {Array("buffers")[k].uri :
            k \in {j \in 1..Len(Array("buffers")) :
                    /\ Has(Array("buffers")[j], "uri")
                    /\ ~IsDataURI(Array("buffers")[j].uri)}}
    \cup (IF \E k \in 1..Len(Array("buffers")) :
                ~Has(Array("buffers")[k], "uri")
          THEN {GLB_BUFFER} ELSE {})

(* Every view made for an emitted buffer carries the buffer's position. *)
ViewsCarryPosition ==
    \A b \in 1..Len(doc.buffers) :
        Emitted(b) =>
            \A a \in AccessorsOf(b) :
                At(Array("bufferViews"),
                   At(Array("accessors"), accessorIndexMap[a]).bufferView).buffer
                    = PositionOf(b)

External == ~options.isGLB /\ ~options.embedded

(* The root buffer an entry of json.buffers was written for. *)
SourceBuffer(bufferDef) ==
    CHOOSE b \in 1..Len(doc.buffers) : doc.buffers[b].name = bufferDef.name

(* The URI of the k-th generated name of a kind the root lists n times. *)
ExpectedURI(object, n, k, extension) ==
    IF object.uri # "" THEN object.uri
    ELSE IF n <= 1 THEN options.basename \o "." \o extension
    ELSE options.basename \o "_" \o ToString(k) \o "." \o extension

(* Number of the first p entries whose source has no pre-set URI. *)
GeneratedAmong(sources, p) ==
    Cardinality({q \in 1..p : sources[q].uri = ""})

BufferSources ==
    [p \in 1..Len(Array("buffers")) |->
        doc.buffers[SourceBuffer(Array("buffers")[p])]]

ImageSources == [p \in 1..Len(Array("images")) |-> doc.textures[p]]

ExtensionOf(texture) ==
    IF texture.mimeType = "image/png" THEN "png" ELSE "jpeg"

(* C9: in external mode a pre-set URI is used verbatim and does not        *)
(* advance the counter; otherwise the URI is "{basename}.{ext}" when the   *)
(* root lists at most one property of the kind, and the k-th generated     *)
(* name is "{basename}_{k}.{ext}" when it lists more; buffers and textures *)
(* count separately, from 1.                                               *)
C9_GeneratedURIs ==
    External =>
        /\ \A p \in 1..Len(Array("buffers")) :
              /\ Array("buffers")[p].uri =
                    ExpectedURI(BufferSources[p], Len(doc.buffers),
                                GeneratedAmong(BufferSources, p), "bin")
              /\ Array("buffers")[p].uri \in DOMAIN resources
        /\ bufferURIGenerator.counter =
              IF Len(doc.buffers) > 1
              THEN 1 + GeneratedAmong(BufferSources, Len(BufferSources))
              ELSE 1
        /\ \A p \in 1..Len(Array("images")) :
              /\ Array("images")[p].uri =
                    ExpectedURI(ImageSources[p], Len(doc.textures),
                                GeneratedAmong(ImageSources, p),
                                ExtensionOf(ImageSources[p]))
              /\ Array("images")[p].uri \in DOMAIN resources
        /\ imageURIGenerator.counter =
              IF Len(doc.textures) > 1
              THEN 1 + GeneratedAmong(ImageSources, Len(ImageSources))
              ELSE 1

C9_Witness ==
    /\ returned
    /\ External
    /\ Len(doc.buffers) = 2
    /\ \A b \in 1..2 : doc.buffers[b].uri = ""
    /\ Len(Array("buffers")) = 2
    /\ Array("buffers")[1].uri = "scene_1.bin"
    /\ Array("buffers")[2].uri = "scene_2.bin"
    /\ {"scene_1.bin", "scene_2.bin"} \subseteq DOMAIN resources
    /\ \E t \in 1..Len(doc.textures) : doc.textures[t].uri # ""

(* ----------------------- shared samplers and textures ------------------ *)
(* The texture slots in use of the materials written so far. *)
WrittenSlots ==
    {s \in (1..Len(Array("materials"))) \X (1..Len(SlotFields)) :
        doc.materials[s[1]].slots[s[2]].texture # Null}

Slot(s) == doc.materials[s[1]].slots[s[2]]

(* The textureInfo def written for slot s. *)
SlotInfo(s) ==
    LET materialDef == Array("materials")[s[1]]
        field == SlotFields[s[2]]
    IN IF field \in PbrFields THEN materialDef.pbrMetallicRoughness[field]
       ELSE materialDef[field]

TextureIndex(s) == SlotInfo(s).index
SamplerIndex(s) == At(Array("textures"), TextureIndex(s)).sampler
SourceIndex(s) == At(Array("textures"), TextureIndex(s)).source

(* The sampler def says what the sampler data say, a filter of 0 unset. *)
SamplerDefMatches(samplerDef, sampler) ==
    /\ samplerDef.wrapS = sampler.wrapS
    /\ samplerDef.wrapT = sampler.wrapT
    /\ IF sampler.magFilter = 0 THEN ~Has(samplerDef, "magFilter")
       ELSE Has(samplerDef, "magFilter")
            /\ samplerDef.magFilter = sampler.magFilter
    /\ IF sampler.minFilter = 0 THEN ~Has(samplerDef, "minFilter")
       ELSE Has(samplerDef, "minFilter")
            /\ samplerDef.minFilter = sampler.minFilter

NoTwoEqual(array) ==
    \A i, j \in 1..Len(array) : array[i] = array[j] => i = j

(* C10: slots with equal sampler data get the same sampler index, slots    *)
(* with the same image and the same sampler index get the same texture     *)
(* index, and json.samplers and json.textures hold no two equal entries.   *)
C10_SamplersAndTexturesShared ==
    /\ \A s \in WrittenSlots :
          /\ SamplerDefMatches(At(Array("samplers"), SamplerIndex(s)),
                               Slot(s).sampler)
          /\ SourceIndex(s) = Slot(s).texture - 1
    /\ \A s1, s2 \in WrittenSlots :
          /\ Slot(s1).sampler = Slot(s2).sampler =>
                SamplerIndex(s1) = SamplerIndex(s2)
          /\ (/\ Slot(s1).texture = Slot(s2).texture
              /\ SamplerIndex(s1) = SamplerIndex(s2)) =>
                TextureIndex(s1) = TextureIndex(s2)
    /\ NoTwoEqual(Array("samplers"))
    /\ NoTwoEqual(Array("textures"))

C10_Witness ==
    /\ returned
    /\ \E s1, s2 \in WrittenSlots :
          /\ s1[1] # s2[1]
          /\ Slot(s1).texture = Slot(s2).texture
          /\ Slot(s1).sampler = Slot(s2).sampler
          /\ Slot(s1).sampler.magFilter = 0
    /\ Len(Array("samplers")) = 1
    /\ Len(Array("textures")) = 1
    /\ Len(Array("images")) = 1

(* ------------------------------- C11 ----------------------------------- *)
(* The top-level values clean() is to remove. *)
Unused(value) ==
    \/ value.type = "array" /\ value.items = <<>>
    \/ value.type = "null"
    \/ value.type = "string" /\ value.chars = ""

(* C11: clean(object) deletes exactly the top-level keys whose value is an *)
(* empty array, null or the empty string, leaves every other key with its  *)
(* value (nested objects included) as it was, and afterwards no top-level  *)
(* key holds [], null or ''.                                               *)
C11_CleanDeletesExactlyUnused ==
    [][pc = "clean" =>
        /\ DOMAIN json' = {key \in DOMAIN json : ~Unused(json[key])}
        /\ \A key \in DOMAIN json' : json'[key] = json[key]
        /\ \A key \in DOMAIN json' : ~Unused(json'[key])]_vars

(* ------------------------------- C12 ----------------------------------- *)
(* The interleaved views: those with a byteStride. *)
InterleavedViews ==
    {v \in 0..(Len(Array("bufferViews")) - 1) :
        Has(At(Array("bufferViews"), v), "byteStride")}

(* The accessor defs of view v, as 0-based positions of json.accessors. *)
Members(v) ==
    {i \in 0..(Len(Array("accessors")) - 1) :
        At(Array("accessors"), i).bufferView = v}

(* padTo4(elementSize x componentSize) of an accessor def. *)
ElementStride(accessorDef) ==
    padNumber(getElementSize(accessorDef) * getComponentSize(accessorDef))

StrideBefore(v, i) ==
    SumOver({j \in Members(v) : j < i},
            [j \in Members(v) |-> ElementStride(At(Array("accessors"), j))])

MaxCount(v) ==
    CHOOSE c \in {At(Array("accessors"), i).count : i \in Members(v)} :
        \A i \in Members(v) : At(Array("accessors"), i).count <= c

(* byteStride is the sum of the padded element sizes of the members, the   *)
(* byteOffset of a member the sum over the members before it, the target   *)
(* ARRAY_BUFFER.                                                           *)
StrideAndOffsets(v) ==
    LET view == At(Array("bufferViews"), v)
    IN /\ Members(v) # {}
       /\ view.byteStride = StrideBefore(v, Len(Array("accessors")))
       /\ \A i \in Members(v) :
             At(Array("accessors"), i).byteOffset = StrideBefore(v, i)
       /\ Has(view, "target") /\ view.target = 34962

(* C12: for every interleaved view byteStride, byteOffsets and target are  *)
(* as above, byteLength = byteStride x the maximum count of the members,   *)
(* and all members have that count.                                        *)
C12_InterleavedViewMaxCount ==
    \A v \in InterleavedViews :
        /\ StrideAndOffsets(v)
        /\ At(Array("bufferViews"), v).byteLength
                = At(Array("bufferViews"), v).byteStride * MaxCount(v)
        /\ \A i \in Members(v) :
                At(Array("accessors"), i).count = MaxCount(v)

(* ------------------------------- C13 ----------------------------------- *)
(* The buffer view accessor a was emitted into. *)
ViewOf(a) == At(Array("accessors"), accessorIndexMap[a]).bufferView

(* The primitives that use accessor a as an attribute. *)
AttributeUsers(a) ==
    {doc.links[k].parent :
        k \in {j \in 1..Len(doc.links) :
                 /\ doc.links[j].child = a
                 /\ doc.links[j].kind = "AttributeLink"}}

(* The emitted accessors of buffer b that primitive p uses as attributes. *)
AttributesOf(p, b) ==
    {a \in AccessorsOf(b) \cap DOMAIN accessorIndexMap :
        p \in AttributeUsers(a)}

(* The emitted accessors of buffer b in the group "index" or "other". *)
GroupOf(b, group) ==
    {a \in AccessorsOf(b) \cap DOMAIN accessorIndexMap :
        ExpectedGroup(a) = group}

InOneView(accessors) == \A a, a2 \in accessors : ViewOf(a) = ViewOf(a2)

(* C13: in a returned document, for every primitive and buffer the         *)
(* attribute accessors of the primitive are in one interleaved view; an    *)
(* interleaved view holds the grouping of one primitive (some primitive    *)
(* uses all its accessors), not the exclusive attributes of two; the index *)
(* accessors of a buffer are in one view, its "other" accessors in         *)
(* another; also when an accessor is an attribute of several primitives.   *)
C13_AttributesOfPrimitiveCoLocated ==
    returned =>
        \A b \in 1..Len(doc.buffers) :
            /\ \A p \in 1..Len(doc.primitives) :
                    /\ InOneView(AttributesOf(p, b))
                    /\ \A a \in AttributesOf(p, b) :
                          /\ ViewOf(a) \in InterleavedViews
                          /\ \E q \in 1..Len(doc.primitives) :
                                \A a2 \in AccessorsInView(ViewOf(a)) :
                                    q \in AttributeUsers(a2)
            /\ InOneView(GroupOf(b, "index"))
            /\ InOneView(GroupOf(b, "other"))
            /\ \A a \in GroupOf(b, "index"), a2 \in GroupOf(b, "other") :
                    ViewOf(a) # ViewOf(a2)
            /\ \A a \in GroupOf(b, "index") \cup GroupOf(b, "other") :
                    ViewOf(a) \notin InterleavedViews

(* ------------------------------- C14 ----------------------------------- *)
(* C14: write() leaves the input graph as it was: no step of write(), a    *)
(* step that ends it with an error included, changes the name, extras,     *)
(* extensions, links or data of a property of doc.                         *)
C14_InputGraphUnchanged == [][doc' = doc]_vars

(* ------------------------------- C15 ----------------------------------- *)
(* The def carries name and extras of the property as createPropertyDef is *)
(* to return them: each present iff non-empty and equal to the property's. *)
CarriesNameAndExtras(def, property) ==
    /\ Has(def, "name") <=> property.name # ""
    /\ Has(def, "name") => def.name = property.name
    /\ Has(def, "extras") <=> property.extras # EmptyObject
    /\ Has(def, "extras") => def.extras = property.extras

(* C15: every def createPropertyDef returned (the image, material and mesh *)
(* defs; a mesh with morph targets is left out, its extras are extended    *)
(* afterwards) has name iff the property's name is non-empty and extras    *)
(* equal to the property's extras iff these are non-empty, whatever the    *)
(* property's extensions are.                                              *)
C15_NameAndExtrasCopied ==
    /\ \A p \in 1..Len(Array("images")) :
            CarriesNameAndExtras(json.images[p], doc.textures[p])
    /\ \A p \in 1..Len(Array("materials")) :
            CarriesNameAndExtras(json.materials[p], doc.materials[p])
    /\ \A p \in 1..Len(Array("meshes")) :
            WithTargets(doc.meshes[p]) = <<>> =>
                CarriesNameAndExtras(json.meshes[p], doc.meshes[p])

(* ------------------------------- C16 ----------------------------------- *)
(* The texture is assigned to a slot of the material. *)
Assigned(texture) == \E k \in 1..Len(SlotFields) : getTexture(k) = texture

ParentsFollowSlots ==
    \A texture \in 1..Len(doc.textures) :
        listParents(texture) =
            IF Assigned(texture) THEN <<"Root", "Material">> ELSE <<"Root">>

Overlap(v, w) ==
    /\ v.buffer = w.buffer
    /\ v.byteLength > 0 /\ w.byteLength > 0
    /\ v.byteOffset < w.byteOffset + w.byteLength
    /\ w.byteOffset < v.byteOffset + v.byteLength

(* C17: whenever write() returns, every buffer view is a byte range inside *)
(* an emitted buffer: its byteOffset is not negative, json.buffers has an  *)
(* entry at its buffer index, byteOffset + byteLength does not exceed that *)
(* buffer's byteLength, and two different views of one buffer do not       *)
(* overlap.                                                                *)
C17_ViewsInsideBuffers ==
    returned =>
        LET views == Array("bufferViews")
        IN /\ \A v \in 1..Len(views) :
                 /\ views[v].byteOffset >= 0
                 /\ InRange(views[v].buffer, Array("buffers"))
                 /\ views[v].byteOffset + views[v].byteLength
                        <= At(Array("buffers"), views[v].buffer).byteLength
           /\ \A v, w \in 1..Len(views) :
                 v # w => ~Overlap(views[v], views[w])

====
